---- MODULE Spec2Model ----
(***************************************************************************)
(* Model of the mesh scene-graph node of rg3d (src/src/scene/mesh.rs):     *)
(* the lazily cached local bounding box, the world-frame and skin-aware    *)
(* bounding boxes, the frustum visibility test and the locking of shared   *)
(* surface data.                                                           *)
(*                                                                         *)
(* Spec      one Mesh and its environment, one action per public operation.*)
(* LockSpec  two Mesh instances on two threads, the bounding-box           *)
(*           computations taken one lock operation at a time.              *)
(*                                                                         *)
(* Coordinates are integers; every vertex coordinate and every translation *)
(* is even and bone weights are counted in halves (weight w stands for     *)
(* w/2), so that scaling by a weight is exact, as scaling by 0.5 is in     *)
(* binary floating point.                                                  *)
(***************************************************************************)
EXTENDS Integers, Sequences, FiniteSets, TLC

VARIABLES
    meshes,   \* mesh id -> Mesh {surfaces, bounding_box, bounding_box_dirty, global_transform}
    store,    \* surface data id -> the vertices of that shared, mutex-guarded buffer
    lastOp,   \* the public operation that ran last
    prevOp,   \* the operation that ran right before the last bounding_box call
    arg,      \* the arguments of the last operation
    result,   \* what the last operation returned (LockSpec: thread -> box built so far)
    reads,    \* vertices read by the last operation (LockSpec: per thread)
    locks,    \* surface-data locks acquired by the last operation (LockSpec: per thread)
    trace,    \* frustum primitives evaluated by the last operation, in order
    pc,       \* LockSpec: thread -> position in its bounding-box computation
    job,      \* LockSpec: thread -> the operation it runs
    cur,      \* LockSpec: thread -> index of the surface it is at
    owner,    \* LockSpec: surface data id -> thread holding its lock, 0 when free
    seen      \* LockSpec: thread -> vertex reads made without holding the lock

vars == <<meshes, store, lastOp, prevOp, arg, result, reads, locks, trace,
          pc, job, cur, owner, seen>>

lockVars == <<pc, job, cur, owner, seen>>

-----------------------------------------------------------------------------
(* Bounds of the model.                                                    *)

MaxSurfaces == 2

-----------------------------------------------------------------------------
(* Vec3, Mat4, AxisAlignedBoundingBox and Frustum of the core math crate.  *)

\* Stand-in for f32::MAX, the coordinate of the default (empty) box.
Big == 1000

Vec3(x, y, z) == <<x, y, z>>

ZERO == Vec3(0, 0, 0)

VecAdd(a, b) == Vec3(a[1] + b[1], a[2] + b[2], a[3] + b[3])

\* Vec3::scale by a weight given in halves.
scale(v, w) == Vec3((v[1] * w) \div 2, (v[2] * w) \div 2, (v[3] * w) \div 2)

MinOf(a, b) == IF a < b THEN a ELSE b

MaxOf(a, b) == IF a > b THEN a ELSE b

\* A Mat4 is its 16 entries in column-major order, f[0..15] at 1..16.
Identity == <<1, 0, 0, 0,   0, 1, 0, 0,   0, 0, 1, 0,   0, 0, 0, 1>>

Translate(x, y, z) == <<1, 0, 0, 0,   0, 1, 0, 0,   0, 0, 1, 0,   x, y, z, 1>>

\* Rotation by a quarter turn about Z followed by a translation.
RotateZ(x, y, z) == <<0, 1, 0, 0,   -1, 0, 0, 0,   0, 0, 1, 0,   x, y, z, 1>>

transform_vector(f, v) ==
    Vec3(v[1] * f[1] + v[2] * f[5] + v[3] * f[9] + f[13],
         v[1] * f[2] + v[2] * f[6] + v[3] * f[10] + f[14],
         v[1] * f[3] + v[2] * f[7] + v[3] * f[11] + f[15])

\* Mat4 * Mat4: entry (row, col) of the product is the sum over k of
\* a(row, k) * b(k, col), entry (row, col) being f[col * 4 + row].
Mat4Mul(a, b) ==
    << a[1] * b[1] + a[5] * b[2] + a[9] * b[3] + a[13] * b[4],
       a[2] * b[1] + a[6] * b[2] + a[10] * b[3] + a[14] * b[4],
       a[3] * b[1] + a[7] * b[2] + a[11] * b[3] + a[15] * b[4],
       a[4] * b[1] + a[8] * b[2] + a[12] * b[3] + a[16] * b[4],
       a[1] * b[5] + a[5] * b[6] + a[9] * b[7] + a[13] * b[8],
       a[2] * b[5] + a[6] * b[6] + a[10] * b[7] + a[14] * b[8],
       a[3] * b[5] + a[7] * b[6] + a[11] * b[7] + a[15] * b[8],
       a[4] * b[5] + a[8] * b[6] + a[12] * b[7] + a[16] * b[8],
       a[1] * b[9] + a[5] * b[10] + a[9] * b[11] + a[13] * b[12],
       a[2] * b[9] + a[6] * b[10] + a[10] * b[11] + a[14] * b[12],
       a[3] * b[9] + a[7] * b[10] + a[11] * b[11] + a[15] * b[12],
       a[4] * b[9] + a[8] * b[10] + a[12] * b[11] + a[16] * b[12],
       a[1] * b[13] + a[5] * b[14] + a[9] * b[15] + a[13] * b[16],
       a[2] * b[13] + a[6] * b[14] + a[10] * b[15] + a[14] * b[16],
       a[3] * b[13] + a[7] * b[14] + a[11] * b[15] + a[15] * b[16],
       a[4] * b[13] + a[8] * b[14] + a[12] * b[15] + a[16] * b[16] >>

\* Node::global_position: the translation column of the world transform.
global_position(f) == Vec3(f[13], f[14], f[15])

\* AxisAlignedBoundingBox::default
EmptyBox == [min |-> Vec3(Big, Big, Big), max |-> Vec3(-Big, -Big, -Big)]

\* AxisAlignedBoundingBox::add_point
add_point(box, p) ==
    [min |-> Vec3(MinOf(box.min[1], p[1]), MinOf(box.min[2], p[2]), MinOf(box.min[3], p[3])),
     max |-> Vec3(MaxOf(box.max[1], p[1]), MaxOf(box.max[2], p[2]), MaxOf(box.max[3], p[3]))]

\* add_point for the points k.. of pts, in order.
RECURSIVE add_points_from(_, _, _)
add_points_from(box, pts, k) ==
    IF k \notin DOMAIN pts THEN box
    ELSE add_points_from(add_point(box, pts[k]), pts, k + 1)

add_points(box, pts) == add_points_from(box, pts, 1)

\* AxisAlignedBoundingBox::corners
corners(box) ==
    { Vec3(x, y, z) : x \in {box.min[1], box.max[1]},
                      y \in {box.min[2], box.max[2]},
                      z \in {box.min[3], box.max[3]} }

\* A frustum is its planes <<a, b, c, d>>; a point is in front of a plane
\* when a*x + b*y + c*z + d > 0.
PlaneDot(pl, p) == pl[1] * p[1] + pl[2] * p[2] + pl[3] * p[3] + pl[4]

\* Frustum::is_contains_point
is_contains_point(frustum, p) == \A pl \in frustum : PlaneDot(pl, p) > 0

\* Frustum::is_intersects_aabb_transform: no plane has every transformed
\* corner of the box behind it.
is_intersects_aabb_transform(frustum, box, f) ==
    LET transformed_corners == { transform_vector(f, c) : c \in corners(box) }
    IN  \A pl \in frustum : \E c \in transformed_corners : PlaneDot(pl, c) > 0

-----------------------------------------------------------------------------
(* The inputs the operations are driven with.                              *)

MeshIds == {1}

DataIds == {1, 2}

\* The surface data that is the buffer of a shared resource; the other one is
\* held by the surfaces of this model only.
SharedData == {1}

Colors == {"white", "red"}

\* Vertex {position, bone_indices, bone_weights}; indices are 0-based into
\* the surface's bone list, weights are in halves.
VA == [position |-> Vec3(2, 0, 0), bone_indices |-> <<0, 1>>, bone_weights |-> <<2, 0>>]

VB == [position |-> Vec3(0, 4, 0), bone_indices |-> <<0, 1>>, bone_weights |-> <<1, 1>>]

VZ == [position |-> Vec3(6, 2, 0), bone_indices |-> <<0, 0>>, bone_weights |-> <<0, 0>>]

\* The vertex buffers a surface data holds.
Buffers == {<<VA, VB>>, <<VZ>>}

\* The bone lists of a surface: handles into the graph; empty for a rigid surface.
RigidSurface == [data |-> 2, bones |-> <<>>, color |-> "white"]

SkinnedSurface == [data |-> 1, bones |-> <<1, 2>>, color |-> "white"]

\* The surfaces handed to the builder, add_surface and surfaces_mut.
Surfaces == {RigidSurface, SkinnedSurface}

RECURSIVE SeqsUpTo(_, _)
SeqsUpTo(S, n) ==
    IF n = 0 THEN {<<>>}
    ELSE LET shorter == SeqsUpTo(S, n - 1)
         IN  shorter \cup { Append(q, x) : q \in shorter, x \in S }

Transforms == {Identity, RotateZ(-20, 0, 0)}

\* A bone node of the graph: its world transform and its inverse bind pose.
Bone(g, i) == [global_transform |-> g, inv_bind_pose_transform |-> i]

Graphs ==
    << <<Bone(Identity, Identity), Bone(Translate(10, 0, 0), Identity)>>,
       <<Bone(RotateZ(30, 0, 0), Translate(-2, 0, 0)), Bone(Translate(10, 6, 0), RotateZ(0, 2, 0))>> >>

\* View volumes: the open boxes lo < p < hi, as six planes.
BoxFrustum(lo, hi) ==
    { <<1, 0, 0, -lo[1]>>, <<-1, 0, 0, hi[1]>>,
      <<0, 1, 0, -lo[2]>>, <<0, -1, 0, hi[2]>>,
      <<0, 0, 1, -lo[3]>>, <<0, 0, -1, hi[3]>> }

Frustums ==
    << BoxFrustum(Vec3(-1, -1, -1), Vec3(7, 7, 1)),
       BoxFrustum(Vec3(8, -5, -5), Vec3(12, 5, 5)) >>

NoArg == [graph |-> 0, frustum |-> 0]

-----------------------------------------------------------------------------
(* Mesh and its operations.                                                *)

\* struct Mesh; base stands for the world transform the Base carries.
Mesh(s, box, dirty, t) ==
    [surfaces |-> s, bounding_box |-> box, bounding_box_dirty |-> dirty,
     global_transform |-> t]

\* impl Default for Mesh
DefaultMesh == Mesh(<<>>, EmptyBox, TRUE, Identity)

\* MeshBuilder::build
build(surfaces, t) == Mesh(surfaces, EmptyBox, TRUE, t)

\* clear_surfaces that forgets to mark the cache dirty.
clear_surfaces_keeps_flag(m) == [m EXCEPT !.surfaces = <<>>]

\* Mesh::clear_surfaces
clear_surfaces(m) == [m EXCEPT !.surfaces = <<>>, !.bounding_box_dirty = TRUE]

\* add_surface that forgets to mark the cache dirty.
add_surface_keeps_flag(m, surface) == [m EXCEPT !.surfaces = Append(m.surfaces, surface)]

\* Mesh::add_surface
add_surface(m, surface) ==
    [m EXCEPT !.surfaces = Append(m.surfaces, surface), !.bounding_box_dirty = TRUE]

\* set_color that marks the cache dirty, as the structural mutations do.
set_color_invalidates(m, color) ==
    [m EXCEPT !.surfaces = [i \in 1..Len(m.surfaces) |-> [m.surfaces[i] EXCEPT !.color = color]],
              !.bounding_box_dirty = TRUE]

\* Mesh::set_color
set_color(m, color) ==
    [m EXCEPT !.surfaces = [i \in 1..Len(m.surfaces) |-> [m.surfaces[i] EXCEPT !.color = color]]]

\* Mesh::surfaces_mut, with surface i overwritten through the returned slice.
surfaces_mut(m, i, surface) == [m EXCEPT !.surfaces[i] = surface]

\* impl Clone for Mesh (derived): every field copied, surface data shared.
clone(m) == m

Positions(verts) == [k \in 1..Len(verts) |-> verts[k].position]

WorldPositions(verts, t) == [k \in 1..Len(verts) |-> transform_vector(t, verts[k].position)]

\* The loop of bounding_box over the surfaces: each surface's data is locked,
\* its vertices read and added, and the lock dropped at the end of the iteration.
RECURSIVE bounding_box_loop(_, _, _)
bounding_box_loop(surfaces, st, acc) ==
    IF surfaces = <<>> THEN acc
    ELSE LET data == st[Head(surfaces).data]
         IN  bounding_box_loop(Tail(surfaces), st,
                 [box |-> add_points(acc.box, Positions(data)),
                  reads |-> acc.reads + Len(data),
                  locks |-> acc.locks + 1])

\* bounding_box that stores the box but leaves the dirty flag set.
bounding_box_stays_dirty(m, st) ==
    IF m.bounding_box_dirty
    THEN LET r == bounding_box_loop(m.surfaces, st, [box |-> EmptyBox, reads |-> 0, locks |-> 0])
         IN  [mesh |-> [m EXCEPT !.bounding_box = r.box],
              ret |-> r.box, reads |-> r.reads, locks |-> r.locks]
    ELSE [mesh |-> m, ret |-> m.bounding_box, reads |-> 0, locks |-> 0]

\* Mesh::bounding_box: the mesh after the call, the box returned, and the
\* vertex reads and lock acquisitions the call made.
bounding_box(m, st) ==
    IF m.bounding_box_dirty
    THEN LET r == bounding_box_loop(m.surfaces, st, [box |-> EmptyBox, reads |-> 0, locks |-> 0])
         IN  [mesh |-> [m EXCEPT !.bounding_box = r.box, !.bounding_box_dirty = FALSE],
              ret |-> r.box, reads |-> r.reads, locks |-> r.locks]
    ELSE [mesh |-> m, ret |-> m.bounding_box, reads |-> 0, locks |-> 0]

RECURSIVE world_bounding_box_loop(_, _, _, _)
world_bounding_box_loop(surfaces, st, t, acc) ==
    IF surfaces = <<>> THEN acc
    ELSE LET data == st[Head(surfaces).data]
         IN  world_bounding_box_loop(Tail(surfaces), st, t,
                 [box |-> add_points(acc.box, WorldPositions(data, t)),
                  reads |-> acc.reads + Len(data),
                  locks |-> acc.locks + 1])

\* Mesh::world_bounding_box
world_bounding_box(m, st) ==
    LET r == world_bounding_box_loop(m.surfaces, st, m.global_transform,
                                     [box |-> EmptyBox, reads |-> 0, locks |-> 0])
    IN  [ret |-> r.box, reads |-> r.reads, locks |-> r.locks]

\* The bone matrices precalculated per skinned surface, one per bone of its list.
RECURSIVE bone_matrices(_, _)
bone_matrices(bones, graph) ==
    IF bones = <<>> THEN <<>>
    ELSE LET bone_node == graph[Head(bones)]
         IN  <<Mat4Mul(bone_node.global_transform, bone_node.inv_bind_pose_transform)>>
             \o bone_matrices(Tail(bones), graph)

\* The weighted sum over the zipped (bone index, weight) pairs k..n of a vertex.
RECURSIVE skin_sum(_, _, _, _, _)
skin_sum(mats, vertex, k, n, position) ==
    IF k > n THEN position
    ELSE skin_sum(mats, vertex, k + 1, n,
             VecAdd(position,
                    scale(transform_vector(mats[vertex.bone_indices[k] + 1], vertex.position),
                          vertex.bone_weights[k])))

\* The weighted sum started from the vertex's own position instead of zero.
skin_position_from_local(mats, vertex) ==
    skin_sum(mats, vertex, 1, MinOf(Len(vertex.bone_indices), Len(vertex.bone_weights)),
             vertex.position)

\* The skinned position of a vertex: the sum starts from Vec3::ZERO.
skin_position(mats, vertex) ==
    skin_sum(mats, vertex, 1, MinOf(Len(vertex.bone_indices), Len(vertex.bone_weights)), ZERO)

SkinnedPositions(verts, mats) == [k \in 1..Len(verts) |-> skin_position(mats, verts[k])]

\* The loop with the rigid path adding the untransformed position.
RECURSIVE full_world_bounding_box_loop_local(_, _, _, _, _)
full_world_bounding_box_loop_local(surfaces, st, t, graph, acc) ==
    IF surfaces = <<>> THEN acc
    ELSE LET surface == Head(surfaces)
             data == st[surface.data]
             pts == IF surface.bones = <<>>
                    THEN Positions(data)
                    ELSE SkinnedPositions(data, bone_matrices(surface.bones, graph))
         IN  full_world_bounding_box_loop_local(Tail(surfaces), st, t, graph,
                 [box |-> add_points(acc.box, pts),
                  reads |-> acc.reads + Len(data),
                  locks |-> acc.locks + 1])

\* The loop of full_world_bounding_box over the surfaces.
RECURSIVE full_world_bounding_box_loop(_, _, _, _, _)
full_world_bounding_box_loop(surfaces, st, t, graph, acc) ==
    IF surfaces = <<>> THEN acc
    ELSE LET surface == Head(surfaces)
             data == st[surface.data]
             pts == IF surface.bones = <<>>
                    THEN WorldPositions(data, t)
                    ELSE SkinnedPositions(data, bone_matrices(surface.bones, graph))
         IN  full_world_bounding_box_loop(Tail(surfaces), st, t, graph,
                 [box |-> add_points(acc.box, pts),
                  reads |-> acc.reads + Len(data),
                  locks |-> acc.locks + 1])

\* Mesh::full_world_bounding_box
full_world_bounding_box(m, st, graph) ==
    LET r == full_world_bounding_box_loop(m.surfaces, st, m.global_transform, graph,
                                          [box |-> EmptyBox, reads |-> 0, locks |-> 0])
    IN  [ret |-> r.box, reads |-> r.reads, locks |-> r.locks]

AabbTest == [test |-> "aabb", bone |-> 0]

PointTest(b) == [test |-> "point", bone |-> b]

\* The bones of all surfaces, in surface order and bone order.
RECURSIVE all_bones(_)
all_bones(surfaces) ==
    IF surfaces = <<>> THEN <<>>
    ELSE Head(surfaces).bones \o all_bones(Tail(surfaces))

\* The bone loop that goes on testing after a bone was found inside.
RECURSIVE bone_loop_exhaustive(_, _, _, _)
bone_loop_exhaustive(bones, graph, frustum, tr) ==
    IF bones = <<>> THEN [ret |-> FALSE, trace |-> tr]
    ELSE LET rest == bone_loop_exhaustive(Tail(bones), graph, frustum,
                                          Append(tr, PointTest(Head(bones))))
         IN  [ret |-> rest.ret \/ is_contains_point(frustum,
                          global_position(graph[Head(bones)].global_transform)),
              trace |-> rest.trace]

\* The nested loops of is_intersect_frustum over the bones: one graph lookup
\* and one point test per bone, returning at the first bone inside.
RECURSIVE bone_loop(_, _, _, _)
bone_loop(bones, graph, frustum, tr) ==
    IF bones = <<>> THEN [ret |-> FALSE, trace |-> tr]
    ELSE IF is_contains_point(frustum, global_position(graph[Head(bones)].global_transform))
         THEN [ret |-> TRUE, trace |-> Append(tr, PointTest(Head(bones)))]
         ELSE bone_loop(Tail(bones), graph, frustum, Append(tr, PointTest(Head(bones))))

\* is_intersect_frustum without the bone fallback.
is_intersect_frustum_box_only(m, st, graph, frustum) ==
    LET bb == bounding_box(m, st)
    IN  [mesh |-> bb.mesh,
         ret |-> is_intersects_aabb_transform(frustum, bb.ret, m.global_transform),
         reads |-> bb.reads, locks |-> bb.locks, trace |-> <<AabbTest>>]

\* Mesh::is_intersect_frustum
is_intersect_frustum(m, st, graph, frustum) ==
    LET bb == bounding_box(m, st)
    IN  IF is_intersects_aabb_transform(frustum, bb.ret, m.global_transform)
        THEN [mesh |-> bb.mesh, ret |-> TRUE, reads |-> bb.reads, locks |-> bb.locks,
              trace |-> <<AabbTest>>]
        ELSE LET r == bone_loop(all_bones(m.surfaces), graph, frustum, <<AabbTest>>)
             IN  [mesh |-> bb.mesh, ret |-> r.ret, reads |-> bb.reads, locks |-> bb.locks,
                  trace |-> r.trace]

-----------------------------------------------------------------------------
(* Spec: the public operations on one Mesh, and the writes its environment *)
(* makes to the surface data it shares.                                    *)

InitStore == [d \in DataIds |-> IF d \in SharedData THEN <<VA, VB>> ELSE <<VB, VZ>>]

InitLock ==
    /\ pc = [t \in MeshIds |-> "idle"]
    /\ job = [t \in MeshIds |-> "none"]
    /\ cur = [t \in MeshIds |-> 0]
    /\ owner = [d \in DataIds |-> 0]
    /\ seen = [t \in MeshIds |-> 0]

Init ==
    /\ \E s \in SeqsUpTo(Surfaces, MaxSurfaces), t \in Transforms :
           meshes \in {[m \in MeshIds |-> DefaultMesh], [m \in MeshIds |-> build(s, t)]}
    /\ store = InitStore
    /\ lastOp = "new"
    /\ prevOp = "none"
    /\ arg = NoArg
    /\ result = "unit"
    /\ reads = 0
    /\ locks = 0
    /\ trace = <<>>
    /\ InitLock

\* What every operation records of itself.
Observe(op, a, ret, r, l, tr) ==
    /\ lastOp' = op
    /\ prevOp' = IF op = "bounding_box" THEN lastOp ELSE "none"
    /\ arg' = a
    /\ result' = ret
    /\ reads' = r
    /\ locks' = l
    /\ trace' = tr

AddSurface(m) ==
    \E s \in Surfaces :
        /\ Len(meshes[m].surfaces) < MaxSurfaces
        /\ meshes' = [meshes EXCEPT ![m] = add_surface(meshes[m], s)]
        /\ Observe("add_surface", NoArg, "unit", 0, 0, <<>>)
        /\ UNCHANGED <<store, lockVars>>

ClearSurfaces(m) ==
    /\ meshes' = [meshes EXCEPT ![m] = clear_surfaces(meshes[m])]
    /\ Observe("clear_surfaces", NoArg, "unit", 0, 0, <<>>)
    /\ UNCHANGED <<store, lockVars>>

SetColor(m) ==
    \E c \in Colors :
        /\ meshes' = [meshes EXCEPT ![m] = set_color(meshes[m], c)]
        /\ Observe("set_color", NoArg, "unit", 0, 0, <<>>)
        /\ UNCHANGED <<store, lockVars>>

\* A write through the slice surfaces_mut returns.
SurfacesMut(m) ==
    \E i \in 1..Len(meshes[m].surfaces), s \in Surfaces :
        /\ meshes' = [meshes EXCEPT ![m] = surfaces_mut(meshes[m], i, s)]
        /\ Observe("surfaces_mut", NoArg, "unit", 0, 0, <<>>)
        /\ UNCHANGED <<store, lockVars>>

\* Another holder of a shared surface data locks it and overwrites its vertices.
WriteSharedVertex ==
    \E d \in SharedData, b \in Buffers :
        /\ store' = [store EXCEPT ![d] = b]
        /\ Observe("write_shared", NoArg, "unit", 0, 0, <<>>)
        /\ UNCHANGED <<meshes, lockVars>>

Clone(m) ==
    /\ Observe("clone", NoArg, clone(meshes[m]), 0, 0, <<>>)
    /\ UNCHANGED <<meshes, store, lockVars>>

\* The world transform of the Base is replaced through deref_mut.
DerefMut(m) ==
    \E t \in Transforms :
        /\ meshes' = [meshes EXCEPT ![m].global_transform = t]
        /\ Observe("deref_mut", NoArg, "unit", 0, 0, <<>>)
        /\ UNCHANGED <<store, lockVars>>

BoundingBox(m) ==
    LET r == bounding_box(meshes[m], store)
    IN  /\ meshes' = [meshes EXCEPT ![m] = r.mesh]
        /\ Observe("bounding_box", NoArg, r.ret, r.reads, r.locks, <<>>)
        /\ UNCHANGED <<store, lockVars>>

WorldBoundingBox(m) ==
    LET r == world_bounding_box(meshes[m], store)
    IN  /\ Observe("world_bounding_box", NoArg, r.ret, r.reads, r.locks, <<>>)
        /\ UNCHANGED <<meshes, store, lockVars>>

FullWorldBoundingBox(m) ==
    \E g \in DOMAIN Graphs :
        LET r == full_world_bounding_box(meshes[m], store, Graphs[g])
        IN  /\ Observe("full_world_bounding_box", [graph |-> g, frustum |-> 0],
                       r.ret, r.reads, r.locks, <<>>)
            /\ UNCHANGED <<meshes, store, lockVars>>

IsIntersectFrustum(m) ==
    \E g \in DOMAIN Graphs, f \in DOMAIN Frustums :
        LET r == is_intersect_frustum(meshes[m], store, Graphs[g], Frustums[f])
        IN  /\ meshes' = [meshes EXCEPT ![m] = r.mesh]
            /\ Observe("is_intersect_frustum", [graph |-> g, frustum |-> f],
                       r.ret, r.reads, r.locks, r.trace)
            /\ UNCHANGED <<store, lockVars>>

Next ==
    \/ \E m \in MeshIds : AddSurface(m)
    \/ \E m \in MeshIds : ClearSurfaces(m)
    \/ \E m \in MeshIds : SetColor(m)
    \/ \E m \in MeshIds : SurfacesMut(m)
    \/ WriteSharedVertex
    \/ \E m \in MeshIds : Clone(m)
    \/ \E m \in MeshIds : DerefMut(m)
    \/ \E m \in MeshIds : BoundingBox(m)
    \/ \E m \in MeshIds : WorldBoundingBox(m)
    \/ \E m \in MeshIds : FullWorldBoundingBox(m)
    \/ \E m \in MeshIds : IsIntersectFrustum(m)

Spec == Init /\ [][Next]_vars

-----------------------------------------------------------------------------
(* What the operations are expected to compute, stated over sets.          *)

Range(q) == { q[i] : i \in DOMAIN q }

Least(S) == CHOOSE x \in S : \A y \in S : x <= y

Greatest(S) == CHOOSE x \in S : \A y \in S : x >= y

\* The smallest box holding the points P; the default box when there are none.
HullOf(P) ==
    IF P = {} THEN EmptyBox
    ELSE [min |-> Vec3(Least({p[1] : p \in P}), Least({p[2] : p \in P}), Least({p[3] : p \in P})),
          max |-> Vec3(Greatest({p[1] : p \in P}), Greatest({p[2] : p \in P}),
                       Greatest({p[3] : p \in P}))]

\* The vertices of all surfaces of m, as the surface data hold them now.
VerticesOf(m, st) == UNION { Range(st[m.surfaces[i].data]) : i \in DOMAIN m.surfaces }

\* The box recomputed from the current contents of the surfaces.
FreshBox(m, st) == HullOf({ v.position : v \in VerticesOf(m, st) })

AllRigid(m) == \A i \in DOMAIN m.surfaces : m.surfaces[i].bones = <<>>

TheMesh == meshes[1]

\* C1: whenever the dirty flag is clear, the cached box is the box that the
\* current contents of the surfaces would give.
C1_CacheCoherent ==
    \A m \in DOMAIN meshes :
        ~meshes[m].bounding_box_dirty =>
            meshes[m].bounding_box = FreshBox(meshes[m], store)

\* C2: after add_surface or clear_surfaces the dirty flag is set, and the
\* bounding_box call that comes next returns the box of every vertex of the
\* new surface sequence, the empty box after clear_surfaces.
C2_Invalidation ==
    /\ lastOp \in {"add_surface", "clear_surfaces"} => TheMesh.bounding_box_dirty
    /\ (lastOp = "bounding_box" /\ prevOp \in {"add_surface", "clear_surfaces"}) =>
           /\ result = FreshBox(TheMesh, store)
           /\ prevOp = "clear_surfaces" => result = EmptyBox

C2_Witness ==
    /\ lastOp = "bounding_box"
    /\ prevOp = "add_surface"
    /\ Len(TheMesh.surfaces) = MaxSurfaces
    /\ reads > 0
    /\ result # EmptyBox

\* C3: set_color changes neither the dirty flag nor the cached box nor the
\* number or order of the surfaces, and a bounding_box call that follows it
\* on a clean cache reads no vertex and returns the box cached before.
C3_SetColorKeepsCache ==
    [][ /\ lastOp' = "set_color" =>
              /\ meshes'[1].bounding_box_dirty = meshes[1].bounding_box_dirty
              /\ meshes'[1].bounding_box = meshes[1].bounding_box
              /\ Len(meshes'[1].surfaces) = Len(meshes[1].surfaces)
              /\ \A i \in DOMAIN meshes[1].surfaces :
                     /\ meshes'[1].surfaces[i].data = meshes[1].surfaces[i].data
                     /\ meshes'[1].surfaces[i].bones = meshes[1].surfaces[i].bones
        /\ (lastOp = "set_color" /\ ~meshes[1].bounding_box_dirty
              /\ lastOp' = "bounding_box") =>
              /\ reads' = 0
              /\ result' = meshes[1].bounding_box ]_vars

C3_Witness ==
    /\ lastOp = "bounding_box"
    /\ prevOp = "set_color"
    /\ reads = 0
    /\ result # EmptyBox
    /\ \E i \in DOMAIN TheMesh.surfaces : TheMesh.surfaces[i].color = "red"

\* C4: of two bounding_box calls in a row the second returns the box the
\* first returned, takes no lock and reads no vertex; a call reads vertices
\* only when the cache was dirty.
C4_Idempotent ==
    [][ /\ (lastOp = "bounding_box" /\ lastOp' = "bounding_box") =>
              /\ result' = result
              /\ reads' = 0
              /\ locks' = 0
        /\ (lastOp' = "bounding_box" /\ ~meshes[1].bounding_box_dirty) =>
              reads' = 0 ]_vars

C4_Witness ==
    /\ lastOp = "bounding_box"
    /\ prevOp = "bounding_box"
    /\ reads = 0
    /\ locks = 0
    /\ Len(TheMesh.surfaces) = MaxSurfaces
    /\ result = FreshBox(TheMesh, store)

\* C5: on a mesh whose surfaces all have an empty bone list,
\* full_world_bounding_box returns the box world_bounding_box returns: the
\* box of every vertex position under the mesh's world transform.
C5_RigidEquivalence ==
    (lastOp = "full_world_bounding_box" /\ AllRigid(TheMesh)) =>
        /\ result = world_bounding_box(TheMesh, store).ret
        /\ result = HullOf({ transform_vector(TheMesh.global_transform, v.position) :
                             v \in VerticesOf(TheMesh, store) })

C5_Witness ==
    /\ lastOp = "full_world_bounding_box"
    /\ AllRigid(TheMesh)
    /\ Len(TheMesh.surfaces) = MaxSurfaces
    /\ TheMesh.global_transform # Identity
    /\ result # FreshBox(TheMesh, store)

\* skinMatrix of a bone: its world transform times its inverse bind pose.
SkinMatrix(graph, b) ==
    Mat4Mul(graph[b].global_transform, graph[b].inv_bind_pose_transform)

RECURSIVE VecSum(_, _)
VecSum(f, K) ==
    IF K = {} THEN ZERO
    ELSE LET k == CHOOSE x \in K : TRUE
         IN  VecAdd(f[k], VecSum(f, K \ {k}))

\* The point a vertex of a skinned surface contributes.
SkinPoint(surface, v, graph) ==
    LET K == DOMAIN v.bone_indices \cap DOMAIN v.bone_weights
    IN  VecSum([k \in K |->
                   scale(transform_vector(SkinMatrix(graph, surface.bones[v.bone_indices[k] + 1]),
                                          v.position),
                         v.bone_weights[k])], K)

\* The points full_world_bounding_box is to insert.
FullWorldPoints(m, st, graph) ==
    UNION { { IF m.surfaces[i].bones = <<>>
              THEN transform_vector(m.global_transform, v.position)
              ELSE SkinPoint(m.surfaces[i], v, graph) :
              v \in Range(st[m.surfaces[i].data]) } : i \in DOMAIN m.surfaces }

\* C6: full_world_bounding_box inserts for every vertex of a skinned surface
\* the weighted sum of the skin matrices applied to its local position, the
\* sum starting from zero and not passing through the mesh's own transform.
C6_SkinnedPoint ==
    lastOp = "full_world_bounding_box" =>
        result = HullOf(FullWorldPoints(TheMesh, store, Graphs[arg.graph]))

\* A skinned surface whose only vertex has all weights 0 gives the origin.
C6_Witness ==
    /\ lastOp = "full_world_bounding_box"
    /\ TheMesh.surfaces # <<>>
    /\ \A i \in DOMAIN TheMesh.surfaces : TheMesh.surfaces[i].bones # <<>>
    /\ VerticesOf(TheMesh, store) = {VZ}
    /\ TheMesh.global_transform # Identity
    /\ result = [min |-> ZERO, max |-> ZERO]

\* The bones of all surfaces, by position in the flattened lists.
BonesOf(m) == UNION { Range(m.surfaces[i].bones) : i \in DOMAIN m.surfaces }

BoneInside(graph, frustum, b) ==
    is_contains_point(frustum, global_position(graph[b].global_transform))

BoxVisible(m, frustum) ==
    is_intersects_aabb_transform(frustum, m.bounding_box, m.global_transform)

\* C7: is_intersect_frustum returns true exactly when the cached local box
\* under the world transform intersects the frustum or some bone of some
\* surface lies inside the frustum.
C7_FrustumResult ==
    lastOp = "is_intersect_frustum" =>
        (result <=> \/ BoxVisible(TheMesh, Frustums[arg.frustum])
                    \/ \E b \in BonesOf(TheMesh) :
                           BoneInside(Graphs[arg.graph], Frustums[arg.frustum], b))

C7_Witness ==
    /\ lastOp = "is_intersect_frustum"
    /\ result = TRUE
    /\ ~BoxVisible(TheMesh, Frustums[arg.frustum])
    /\ \E b \in BonesOf(TheMesh) :
           BoneInside(Graphs[arg.graph], Frustums[arg.frustum], b)

\* The index of the first bone of q inside the frustum, Len(q) when none is.
FirstInside(q, graph, frustum) ==
    IF \E k \in DOMAIN q : BoneInside(graph, frustum, q[k])
    THEN Least({ k \in DOMAIN q : BoneInside(graph, frustum, q[k]) })
    ELSE Len(q)

\* C8: the box test comes first; when it succeeds nothing else is tested
\* and the result is true; otherwise the bones are tested in stored order
\* and testing stops at the first bone inside.
C8_ShortCircuit ==
    lastOp = "is_intersect_frustum" =>
        LET bones == all_bones(TheMesh.surfaces)
            graph == Graphs[arg.graph]
            frustum == Frustums[arg.frustum]
        IN  /\ trace # <<>>
            /\ Head(trace) = AabbTest
            /\ BoxVisible(TheMesh, frustum) => (trace = <<AabbTest>> /\ result = TRUE)
            /\ ~BoxVisible(TheMesh, frustum) =>
                   Tail(trace) = [k \in 1..FirstInside(bones, graph, frustum) |->
                                     PointTest(bones[k])]

C8_Witness ==
    /\ lastOp = "is_intersect_frustum"
    /\ result = TRUE
    /\ Len(trace) = 3
    /\ Len(all_bones(TheMesh.surfaces)) = 4

\* C10: on a mesh without surfaces bounding_box, world_bounding_box and
\* full_world_bounding_box all return the default box.
C10_EmptyMesh ==
    (/\ lastOp \in {"bounding_box", "world_bounding_box", "full_world_bounding_box"}
     /\ TheMesh.surfaces = <<>>) => result = EmptyBox

C10_Witness ==
    /\ lastOp = "bounding_box"
    /\ prevOp = "clear_surfaces"
    /\ TheMesh.surfaces = <<>>
    /\ TheMesh.global_transform # Identity
    /\ TheMesh.bounding_box = EmptyBox

-----------------------------------------------------------------------------
(* LockSpec: two Mesh instances that share surface data, each on its own   *)
(* thread, running the three bounding-box computations one lock operation  *)
(* at a time.                                                              *)

Threads == {1, 2}

BoxOps == {"bounding_box", "world_bounding_box", "full_world_bounding_box"}

\* The orderings of the surfaces of s.
Orderings(s) ==
    { [i \in DOMAIN s |-> s[f[i]]] :
        f \in { g \in [DOMAIN s -> DOMAIN s] : \A i, j \in DOMAIN s : g[i] = g[j] => i = j } }

LockInit ==
    /\ \E s \in SeqsUpTo(Surfaces, MaxSurfaces) \ {<<>>} :
           \E p \in Orderings(s) :
               meshes = [t \in Threads |-> build(IF t = 1 THEN s ELSE p, Identity)]
    /\ store = InitStore
    /\ lastOp = "new"
    /\ prevOp = "none"
    /\ arg = NoArg
    /\ trace = <<>>
    /\ result = [t \in Threads |-> EmptyBox]
    /\ reads = [t \in Threads |-> 0]
    /\ locks = [t \in Threads |-> 0]
    /\ pc = [t \in Threads |-> "idle"]
    /\ job = [t \in Threads |-> "none"]
    /\ cur = [t \in Threads |-> 0]
    /\ owner = [d \in DataIds |-> 0]
    /\ seen = [t \in Threads |-> 0]

\* The surface thread t is at, and the data it holds.
CurSurface(t) == meshes[t].surfaces[cur[t]]

\* data.lock(): the mutex of data d becomes held by thread t.
acquire(own, d, t) == [own EXCEPT ![d] = t]

\* A guard that is kept alive past its loop iteration.
release_leaks(own, d) == own

\* The guard `data` goes out of scope at the end of the loop iteration.
release(own, d) == [own EXCEPT ![d] = 0]

\* The points one loop iteration adds for the surface, by operation.
PointsFor(op, m, surface, st) ==
    CASE op = "bounding_box" -> Positions(st[surface.data])
      [] op = "world_bounding_box" -> WorldPositions(st[surface.data], m.global_transform)
      [] OTHER ->
            IF surface.bones = <<>>
            THEN WorldPositions(st[surface.data], m.global_transform)
            ELSE SkinnedPositions(st[surface.data], bone_matrices(surface.bones, Graphs[1]))

\* A thread enters one of the three operations.
Call(t) ==
    /\ pc[t] = "idle"
    /\ \E op \in BoxOps :
        LET loops == (op # "bounding_box" \/ meshes[t].bounding_box_dirty)
                     /\ meshes[t].surfaces # <<>>
        IN  /\ job' = [job EXCEPT ![t] = op]
            /\ pc' = [pc EXCEPT ![t] = IF loops THEN "lock" ELSE "return"]
            /\ cur' = [cur EXCEPT ![t] = 1]
            /\ result' = [result EXCEPT ![t] =
                              IF op = "bounding_box" /\ ~meshes[t].bounding_box_dirty
                              THEN meshes[t].bounding_box ELSE EmptyBox]
            /\ reads' = [reads EXCEPT ![t] = 0]
            /\ locks' = [locks EXCEPT ![t] = 0]
    /\ UNCHANGED <<meshes, store, lastOp, prevOp, arg, trace, owner, seen>>

\* let data = data.lock().unwrap(): blocks while the mutex is held.
Lock(t) ==
    /\ pc[t] = "lock"
    /\ owner[CurSurface(t).data] = 0
    /\ owner' = acquire(owner, CurSurface(t).data, t)
    /\ locks' = [locks EXCEPT ![t] = @ + 1]
    /\ pc' = [pc EXCEPT ![t] = "read"]
    /\ UNCHANGED <<meshes, store, lastOp, prevOp, arg, trace, result, reads, job, cur, seen>>

\* for vertex in data.get_vertices(): the vertices are read and added.
Read(t) ==
    /\ pc[t] = "read"
    /\ result' = [result EXCEPT ![t] =
                      add_points(@, PointsFor(job[t], meshes[t], CurSurface(t), store))]
    /\ reads' = [reads EXCEPT ![t] = @ + Len(store[CurSurface(t).data])]
    /\ seen' = [seen EXCEPT ![t] = IF owner[CurSurface(t).data] = t THEN @ ELSE 1]
    /\ pc' = [pc EXCEPT ![t] = "unlock"]
    /\ UNCHANGED <<meshes, store, lastOp, prevOp, arg, trace, locks, job, cur, owner>>

\* The end of the loop body: the guard is dropped, the loop moves on.
Unlock(t) ==
    /\ pc[t] = "unlock"
    /\ owner' = release(owner, CurSurface(t).data)
    /\ cur' = [cur EXCEPT ![t] = @ + 1]
    /\ pc' = [pc EXCEPT ![t] = IF cur[t] < Len(meshes[t].surfaces) THEN "lock" ELSE "return"]
    /\ UNCHANGED <<meshes, store, lastOp, prevOp, arg, trace, result, reads, locks, job, seen>>

\* The operation returns; bounding_box stores the box when it computed one.
Return(t) ==
    /\ pc[t] = "return"
    /\ meshes' = IF job[t] = "bounding_box" /\ meshes[t].bounding_box_dirty
                 THEN [meshes EXCEPT ![t].bounding_box = result[t],
                                     ![t].bounding_box_dirty = FALSE]
                 ELSE meshes
    /\ pc' = [pc EXCEPT ![t] = "idle"]
    /\ cur' = [cur EXCEPT ![t] = 0]
    /\ UNCHANGED <<store, lastOp, prevOp, arg, trace, result, reads, locks, job, owner, seen>>

LockNext ==
    \/ \E t \in Threads : Call(t)
    \/ \E t \in Threads : Lock(t)
    \/ \E t \in Threads : Read(t)
    \/ \E t \in Threads : Unlock(t)
    \/ \E t \in Threads : Return(t)

LockSpec == LockInit /\ [][LockNext]_vars

Held(t) == { d \in DataIds : owner[d] = t }

\* Thread t is at data.lock() and the mutex is held: it cannot take a step.
Blocked(t) == pc[t] = "lock" /\ owner[CurSurface(t).data] # 0

\* C9: every vertex read is made under the lock of the surface data read,
\* a thread holds at most one lock, none while it acquires the next or
\* returns, and a thread that waits for a lock waits for another thread
\* that is not waiting itself and is about to release it (no deadlock).
C9_ScopedLocking ==
    \A t \in Threads :
        /\ seen[t] = 0
        /\ pc[t] = "read" => owner[CurSurface(t).data] = t
        /\ Cardinality(Held(t)) <= 1
        /\ pc[t] \in {"idle", "lock", "return"} => Held(t) = {}
        /\ Blocked(t) =>
               \E u \in Threads \ {t} :
                   /\ owner[CurSurface(t).data] = u
                   /\ pc[u] \in {"read", "unlock"}

\* Thread 1 has released its first surface and waits for the data thread 2
\* holds, the two meshes listing the shared data in opposite order.
C9_Witness ==
    /\ Len(meshes[1].surfaces) = 2
    /\ meshes[2].surfaces = <<meshes[1].surfaces[2], meshes[1].surfaces[1]>>
    /\ meshes[1].surfaces[1].data # meshes[1].surfaces[2].data
    /\ pc[1] = "lock"
    /\ cur[1] = 2
    /\ pc[2] = "read"
    /\ cur[2] = 1
    /\ owner[meshes[1].surfaces[2].data] = 2

====
